---- MODULE Spec2Model ----
(***************************************************************************)
(* A model of the `task` crate: variable names and their textual forms,    *)
(* the TaskVariables container, and the resolution of a task template      *)
(* against a TaskContext.                                                  *)
(*                                                                         *)
(* A Rust String is a sequence of one-character strings, so that prefixes, *)
(* substrings and letter case are things the model can compute.            *)
(***************************************************************************)
EXTENDS Integers, Sequences, FiniteSets, TLC

VARIABLES
    first,           \* the variable name rendered last (SpecNames)
    second,          \* the variable name rendered before it (SpecNames)
    task_variables,  \* a TaskVariables container under insert/extend (SpecVars)
    call,            \* the last call made on task_variables, with its result
    cx,              \* the TaskContext a template is resolved against (SpecResolve)
    resolved         \* the last resolution: template, context and ResolvedTask

vars == <<first, second, task_variables, call, cx, resolved>>

(***************************************************************************)
(* Bounds of the model.                                                    *)
(***************************************************************************)
\* longest payload string of a Custom variable name
MaxLen == 2
\* most pieces (literal characters and tokens) in a template's command
MaxPieces == 2

(***************************************************************************)
(* Option<T>.                                                              *)
(***************************************************************************)
None == [some |-> FALSE]
Some(x) == [some |-> TRUE, value |-> x]

(***************************************************************************)
(* Strings.                                                                *)
(***************************************************************************)
Range(s) == {s[i] : i \in 1..Len(s)}

IsPrefix(p, s) == Len(p) <= Len(s) /\ SubSeq(s, 1, Len(p)) = p

\* p occurs in s starting at position i
OccursAt(p, s, i) == i + Len(p) - 1 <= Len(s) /\ SubSeq(s, i, i + Len(p) - 1) = p

IsSubstring(p, s) == \E i \in 1..(Len(s) + 1) : OccursAt(p, s, i)

LowerChars ==
    {"a", "b", "c", "d", "e", "f", "g", "h", "i", "j", "k", "l", "m",
     "n", "o", "p", "q", "r", "s", "t", "u", "v", "w", "x", "y", "z"}

IsUppercase(s) == Range(s) \cap LowerChars = {}

(***************************************************************************)
(* VariableName: six built-in variants and Custom(Cow<'static, str>).      *)
(* The Cow is Borrowed or Owned; the derived PartialEq/Eq/Hash look at the *)
(* payload string only.                                                    *)
(***************************************************************************)
BuiltInTags == {"File", "WorktreeRoot", "Symbol", "Row", "Column", "SelectedText"}

CowKinds == {"Borrowed", "Owned"}

\* the characters payload strings are drawn from: an uppercase letter, a
\* lowercase letter and the closing brace of the braced template form
PayloadChars == {"A", "b", "}"}

\* payload strings that spell the suffix of a built-in's token
BuiltInLikePayloads == {<<"F", "I", "L", "E">>, <<"R", "O", "W">>}

Payloads == UNION {[1..n -> PayloadChars] : n \in 0..MaxLen} \cup BuiltInLikePayloads

BuiltIn(tag) == [tag |-> tag]

Custom(cow, payload) == [tag |-> "Custom", cow |-> cow, payload |-> payload]

IsCustom(v) == v.tag = "Custom"

VariableName ==
    {BuiltIn(t) : t \in BuiltInTags}
        \cup {Custom(c, p) : c \in CowKinds, p \in Payloads}

\* a variant of NameEq that compares the Cow representation too
NameEqByRepresentation(v, w) == v = w

\* #[derive(PartialEq, Eq, Hash)] on VariableName
NameEq(v, w) ==
    /\ v.tag = w.tag
    /\ IsCustom(v) => v.payload = w.payload

\* a variant of the prefix in lowercase
LowercasePrefix == <<"z", "e", "d", "_">>

\* pub const ZED_VARIABLE_NAME_PREFIX
ZED_VARIABLE_NAME_PREFIX == <<"Z", "E", "D", "_">>

\* a variant of Display that leaves out the CUSTOM_ namespace
DisplayNoNamespace(v) ==
    ZED_VARIABLE_NAME_PREFIX \o
        CASE v.tag = "File" -> <<"F", "I", "L", "E">>
          [] v.tag = "WorktreeRoot" ->
                <<"W", "O", "R", "K", "T", "R", "E", "E", "_", "R", "O", "O", "T">>
          [] v.tag = "Symbol" -> <<"S", "Y", "M", "B", "O", "L">>
          [] v.tag = "Row" -> <<"R", "O", "W">>
          [] v.tag = "Column" -> <<"C", "O", "L", "U", "M", "N">>
          [] v.tag = "SelectedText" ->
                <<"S", "E", "L", "E", "C", "T", "E", "D", "_", "T", "E", "X", "T">>
          [] v.tag = "Custom" -> v.payload

\* impl Display for VariableName
Display(v) ==
    ZED_VARIABLE_NAME_PREFIX \o
        CASE v.tag = "File" -> <<"F", "I", "L", "E">>
          [] v.tag = "WorktreeRoot" ->
                <<"W", "O", "R", "K", "T", "R", "E", "E", "_", "R", "O", "O", "T">>
          [] v.tag = "Symbol" -> <<"S", "Y", "M", "B", "O", "L">>
          [] v.tag = "Row" -> <<"R", "O", "W">>
          [] v.tag = "Column" -> <<"C", "O", "L", "U", "M", "N">>
          [] v.tag = "SelectedText" ->
                <<"S", "E", "L", "E", "C", "T", "E", "D", "_", "T", "E", "X", "T">>
          [] v.tag = "Custom" ->
                <<"C", "U", "S", "T", "O", "M", "_">> \o v.payload

\* a variant of template_value that braces every variable
template_value_all_braced(v) == <<"$", "{">> \o Display(v) \o <<"}">>

\* a variant of template_value that braces no variable
template_value_unbraced(v) == <<"$">> \o Display(v)

\* VariableName::template_value
template_value(v) ==
    IF IsCustom(v)
    THEN <<"$", "{">> \o Display(v) \o <<"}">>
    ELSE <<"$">> \o Display(v)

(***************************************************************************)
(* TaskVariables(HashMap<VariableName, String>).                           *)
(* The container is the sequence of its entries in iteration order.  A     *)
(* HashMap's iteration order is unspecified, so an entry under a new key   *)
(* may land anywhere and move the others; overwriting a key's value moves  *)
(* nothing and keeps the key that is stored.                               *)
(***************************************************************************)
Entry(k, v) == [key |-> k, value |-> v]

Orderings(s) ==
    {[i \in 1..Len(s) |-> s[p[i]]] :
        p \in {q \in [1..Len(s) -> 1..Len(s)] :
                  \A i, j \in 1..Len(s) : q[i] = q[j] => i = j}}

\* the position of the entry stored under `variable`, 0 when there is none
IndexOf(m, variable) ==
    IF \E i \in 1..Len(m) : NameEq(m[i].key, variable)
    THEN CHOOSE i \in 1..Len(m) : NameEq(m[i].key, variable)
    ELSE 0

\* HashMap::get
Get(m, variable) ==
    IF IndexOf(m, variable) = 0 THEN None ELSE Some(m[IndexOf(m, variable)].value)

\* TaskVariables::default
Default == <<>>

\* a variant of insert that keeps the value already stored under the key
insert_keep_existing(m, variable, value) ==
    IF IndexOf(m, variable) = 0
    THEN {[map |-> p, ret |-> None] :
            p \in Orderings(Append(m, Entry(variable, value)))}
    ELSE {[map |-> m, ret |-> Get(m, variable)]}

\* TaskVariables::insert: the outcomes [map, ret] of self.0.insert(variable, value)
insert(m, variable, value) ==
    IF IndexOf(m, variable) = 0
    THEN {[map |-> p, ret |-> None] :
            p \in Orderings(Append(m, Entry(variable, value)))}
    ELSE {[map |-> [m EXCEPT ![IndexOf(m, variable)].value = value],
           ret |-> Get(m, variable)]}

RECURSIVE extend_left_wins(_, _)
\* a variant of extend in which the receiver's value survives a collision
extend_left_wins(m, other) ==
    IF other = <<>>
    THEN {m}
    ELSE UNION {extend_left_wins(o.map, Tail(other)) :
                    o \in insert_keep_existing(m, Head(other).key, Head(other).value)}

RECURSIVE extend(_, _)
\* TaskVariables::extend: the containers self.0.extend(other.0) can leave,
\* which inserts other's entries one by one in other's iteration order
extend(m, other) ==
    IF other = <<>>
    THEN {m}
    ELSE UNION {extend(o.map, Tail(other)) :
                    o \in insert(m, Head(other).key, Head(other).value)}

\* impl FromIterator<(VariableName, String)> for TaskVariables
from_iter(iter) == extend(Default, iter)

\* HashMap<String, String>::insert on a map held as a function
EnvInsert(env, name, value) ==
    [n \in DOMAIN env \cup {name} |-> IF n = name THEN value ELSE env[n]]

RECURSIVE EnvCollect(_, _)
\* Iterator::collect into a HashMap<String, String>
EnvCollect(pairs, env) ==
    IF pairs = <<>>
    THEN env
    ELSE EnvCollect(Tail(pairs), EnvInsert(env, Head(pairs).key, Head(pairs).value))

\* a variant of into_env_variables keyed by the names' template values
into_env_variables_by_template_value(m) ==
    EnvCollect([i \in 1..Len(m) |-> Entry(template_value(m[i].key), m[i].value)], <<>>)

\* TaskVariables::into_env_variables
into_env_variables(m) ==
    EnvCollect([i \in 1..Len(m) |-> Entry(Display(m[i].key), m[i].value)], <<>>)

(***************************************************************************)
(* SpecNames: variable names are rendered one after another; the last two  *)
(* renderings are kept.                                                    *)
(***************************************************************************)
\* the value a rendered variable is given in its one-entry container
RenderedValue == <<"v">>

Rendering(v, env) ==
    [name |-> v,
     token |-> Display(v),
     template |-> template_value(v),
     env |-> env]

Render(v) ==
    /\ \E m \in from_iter(<<Entry(v, RenderedValue)>>) :
          first' = Some(Rendering(v, into_env_variables(m)))
    /\ second' = first
    /\ UNCHANGED <<task_variables, call, cx, resolved>>

(***************************************************************************)
(* SpecVars: one TaskVariables container under insert, extend and          *)
(* into_env_variables.                                                     *)
(***************************************************************************)
\* the keys and values the calls draw from; Custom("A") comes in both Cow forms
MapKeys == {BuiltIn("File"), Custom("Borrowed", <<"A">>), Custom("Owned", <<"A">>)}

Values == {<<"x">>, <<"y">>}

Entries == {Entry(k, v) : k \in MapKeys, v \in Values}

\* every TaskVariables over MapKeys and Values: no two entries under equal keys
AllTaskVariables ==
    {m \in UNION {[1..n -> Entries] : n \in 0..Cardinality(MapKeys)} :
        \A i, j \in 1..Len(m) : NameEq(m[i].key, m[j].key) => i = j}

NoCall == [op |-> "none"]

Insert(variable, value) ==
    /\ \E o \in insert(task_variables, variable, value) :
          /\ task_variables' = o.map
          /\ call' = [op |-> "insert", variable |-> variable, value |-> value,
                      pre |-> task_variables, ret |-> o.ret]
    /\ UNCHANGED <<first, second, cx, resolved>>

Extend(other) ==
    /\ \E m \in extend(task_variables, other) :
          /\ task_variables' = m
          /\ call' = [op |-> "extend", other |-> other, pre |-> task_variables]
    /\ UNCHANGED <<first, second, cx, resolved>>

\* into_env_variables takes self by value: the container is gone afterwards and
\* the next calls are made on a fresh one
IntoEnvVariables ==
    /\ call' = [op |-> "into_env_variables", pre |-> task_variables,
                env |-> into_env_variables(task_variables)]
    /\ task_variables' = Default
    /\ UNCHANGED <<first, second, cx, resolved>>

NoContext == [cwd |-> None, task_variables |-> Default]

InitNames ==
    /\ first = None
    /\ second = None
    /\ task_variables = Default
    /\ call = NoCall
    /\ cx = NoContext
    /\ resolved = None

NextNames == \E v \in VariableName : Render(v)

SpecNames == InitNames /\ [][NextNames]_vars

InitVars == InitNames

NextVars ==
    \/ \E variable \in MapKeys, value \in Values : Insert(variable, value)
    \/ \E other \in AllTaskVariables : Extend(other)
    \/ IntoEnvVariables

SpecVars == InitVars /\ [][NextVars]_vars

(***************************************************************************)
(* Resolution of a TaskTemplate against a TaskContext (mod task_template). *)
(* A template string is written as a sequence of pieces: literal           *)
(* characters, unbraced tokens $NAME and braced tokens ${NAME}.            *)
(***************************************************************************)
UpperChars ==
    {"A", "B", "C", "D", "E", "F", "G", "H", "I", "J", "K", "L", "M",
     "N", "O", "P", "Q", "R", "S", "T", "U", "V", "W", "X", "Y", "Z"}

Digits == {"0", "1", "2", "3", "4", "5", "6", "7", "8", "9"}

\* the characters an unbraced token's name is made of
IsNameChar(c) == c \in UpperChars \cup LowerChars \cup Digits \cup {"_"}

\* the variables a context may hold: a built-in one, and a Custom one whose
\* payload spells the built-in's suffix
ResolveKeys == {BuiltIn("File"), Custom("Borrowed", <<"F", "I", "L", "E">>)}

\* the values they are given; one of them is itself a token
ContextValues == {<<"v">>, <<"$", "Z", "E", "D", "_", "F", "I", "L", "E">>}

ContextCwds == {None, Some(<<"/", "p">>)}

\* names of the tokens templates are written with: the two variables' and
\* one that extends the built-in's by a letter
FileName == <<"Z", "E", "D", "_", "F", "I", "L", "E">>
CustomFileName ==
    <<"Z", "E", "D", "_", "C", "U", "S", "T", "O", "M", "_", "F", "I", "L", "E">>
FileXName == <<"Z", "E", "D", "_", "F", "I", "L", "E", "X">>

TokenNames == {FileName, CustomFileName, FileXName}

Lit(c) == [kind |-> "lit", text |-> <<c>>]
Unbraced(name) == [kind |-> "unbraced", name |-> name, text |-> <<"$">> \o name]
Braced(name) == [kind |-> "braced", name |-> name, text |-> <<"$", "{">> \o name \o <<"}">>]

Pieces ==
    {Lit(" "), Lit("X")}
        \cup {Unbraced(n) : n \in TokenNames} \cup {Braced(n) : n \in TokenNames}

\* an unbraced token ends where its name ends: no name character follows it
WellFormed(ps) ==
    \A i \in 1..(Len(ps) - 1) :
        ps[i].kind = "unbraced" => ~IsNameChar(ps[i + 1].text[1])

CommandPieces == {ps \in UNION {[1..n -> Pieces] : n \in 0..MaxPieces} : WellFormed(ps)}

\* label, argument, environment value and working directory of a template
OtherPieces == {<<Lit("X")>>, <<Unbraced(FileName)>>, <<Braced(CustomFileName)>>}

RECURSIVE Flatten(_)
Flatten(ps) == IF ps = <<>> THEN <<>> ELSE Head(ps).text \o Flatten(Tail(ps))

\* the name of the one environment override templates carry
EnvKey == <<"K">>

TaskTemplate(command, other, with_cwd) ==
    [label |-> Flatten(other),
     command |-> Flatten(command),
     args |-> <<Flatten(other)>>,
     cwd |-> IF with_cwd THEN Some(Flatten(other)) ELSE None,
     env |-> [n \in {EnvKey} |-> Flatten(other)],
     use_new_terminal |-> FALSE,
     allow_concurrent_runs |-> FALSE,
     reveal |-> "Always"]

\* the length of the longest run of name characters of s that starts at i
RECURSIVE NameRun(_, _)
NameRun(s, i) ==
    IF i <= Len(s) /\ IsNameChar(s[i]) THEN 1 + NameRun(s, i + 1) ELSE 0

RECURSIVE substitute(_, _)
\* one scan of s from the left: a token ${NAME} or $NAME whose NAME is a key
\* of env gives way to env's value, which is not scanned again; every other
\* character, and every token env does not know, is copied
substitute(s, env) ==
    IF s = <<>> THEN <<>>
    ELSE IF Head(s) # "$" THEN <<Head(s)>> \o substitute(Tail(s), env)
    ELSE IF Len(s) >= 2 /\ s[2] = "{"
    THEN IF \E j \in 3..Len(s) : s[j] = "}"
         THEN LET j == CHOOSE k \in 3..Len(s) :
                            s[k] = "}" /\ \A l \in 3..(k - 1) : s[l] # "}"
                  name == SubSeq(s, 3, j - 1)
              IN  (IF name \in DOMAIN env THEN env[name] ELSE SubSeq(s, 1, j))
                      \o substitute(SubSeq(s, j + 1, Len(s)), env)
         ELSE <<"$">> \o substitute(Tail(s), env)
    ELSE LET n == NameRun(s, 2)
             name == SubSeq(s, 2, n + 1)
         IN  IF n = 0
             THEN <<"$">> \o substitute(Tail(s), env)
             ELSE (IF name \in DOMAIN env THEN env[name] ELSE SubSeq(s, 1, n + 1))
                      \o substitute(SubSeq(s, n + 2, Len(s)), env)

\* TaskId: the template and the distinguishing values of the context
TaskId(template, cwd, variables) ==
    [template |-> template, cwd |-> cwd, variables |-> variables]

\* resolve(template, context) -> ResolvedTask
resolve_task(template, context) ==
    LET variables == into_env_variables(context.task_variables)
        cwd == IF template.cwd.some
               THEN Some(substitute(template.cwd.value, variables))
               ELSE context.cwd
        id == TaskId(template, context.cwd, variables)
        label == substitute(template.label, variables)
    IN  [id |-> id,
         original_task |-> template,
         resolved_label |-> label,
         resolved |->
            IF template.command = <<>>
            THEN None
            ELSE Some([id |-> id,
                       full_label |-> label,
                       label |-> label,
                       command |-> substitute(template.command, variables),
                       args |-> [i \in 1..Len(template.args) |->
                                    substitute(template.args[i], variables)],
                       cwd |-> cwd,
                       env |-> [n \in DOMAIN template.env |->
                                    substitute(template.env[n], variables)],
                       use_new_terminal |-> template.use_new_terminal,
                       allow_concurrent_runs |-> template.allow_concurrent_runs,
                       reveal |-> template.reveal])]

(***************************************************************************)
(* SpecResolve: a context is made, variables are inserted into it, and     *)
(* templates are resolved against it.  A resolved task belongs to the      *)
(* context it was resolved against and is dropped when the context changes.*)
(***************************************************************************)
NewContext(cwd) ==
    /\ cx' = [cwd |-> cwd, task_variables |-> Default]
    /\ resolved' = None
    /\ UNCHANGED <<first, second, task_variables, call>>

InsertVariable(variable, value) ==
    /\ \E o \in insert(cx.task_variables, variable, value) :
          cx' = [cx EXCEPT !.task_variables = o.map]
    /\ resolved' = None
    /\ UNCHANGED <<first, second, task_variables, call>>

\* resolve_task reads the context and changes nothing, so the tasks a context
\* resolves to are the same whether or not an earlier task is still held; the
\* next template is resolved once the context has been touched again
Resolve(command, other, with_cwd) ==
    /\ resolved = None
    /\ resolved' = Some([command |-> command,
                         other |-> other,
                         template |-> TaskTemplate(command, other, with_cwd),
                         task |-> resolve_task(TaskTemplate(command, other, with_cwd), cx)])
    /\ UNCHANGED <<first, second, task_variables, call, cx>>

InitResolve == InitNames

NextResolve ==
    \/ \E cwd \in ContextCwds : NewContext(cwd)
    \/ \E variable \in ResolveKeys, value \in ContextValues :
          InsertVariable(variable, value)
    \/ \E command \in CommandPieces, other \in OtherPieces, with_cwd \in BOOLEAN :
          Resolve(command, other, with_cwd)

SpecResolve == InitResolve /\ [][NextResolve]_vars

(***************************************************************************)
(* Properties of the variable names and of the container.                  *)
(***************************************************************************)
\* v and w are the same variable: the same variant and, for Custom, equal
\* payload strings
SameVariable(v, w) ==
    /\ v.tag = w.tag
    /\ v.tag = "Custom" => v.payload = w.payload

\* the values container m holds for variable v
ValuesOf(m, v) == {m[i].value : i \in {j \in 1..Len(m) : SameVariable(m[j].key, v)}}

\* the canonical token of each variable, character by character
CanonicalToken(v) ==
    CASE v.tag = "File" -> <<"Z", "E", "D", "_", "F", "I", "L", "E">>
      [] v.tag = "WorktreeRoot" ->
            <<"Z", "E", "D", "_", "W", "O", "R", "K", "T", "R", "E", "E",
              "_", "R", "O", "O", "T">>
      [] v.tag = "Symbol" -> <<"Z", "E", "D", "_", "S", "Y", "M", "B", "O", "L">>
      [] v.tag = "Row" -> <<"Z", "E", "D", "_", "R", "O", "W">>
      [] v.tag = "Column" -> <<"Z", "E", "D", "_", "C", "O", "L", "U", "M", "N">>
      [] v.tag = "SelectedText" ->
            <<"Z", "E", "D", "_", "S", "E", "L", "E", "C", "T", "E", "D",
              "_", "T", "E", "X", "T">>
      [] v.tag = "Custom" ->
            <<"Z", "E", "D", "_", "C", "U", "S", "T", "O", "M", "_">> \o v.payload

\* C1: the container never holds two entries for one variable (Custom names
\* with equal payloads being one variable), and insert(variable, value)
\* returns Some(old) when the variable was present with value old and None
\* when it was absent, leaves the variable mapped to the new value and leaves
\* every other variable's value as it was.
C1_InsertOverwritesAndKeepsKeysUnique ==
    /\ \A i, j \in 1..Len(task_variables) :
          SameVariable(task_variables[i].key, task_variables[j].key) => i = j
    /\ call.op = "insert" =>
          /\ \A old \in ValuesOf(call.pre, call.variable) : call.ret = Some(old)
          /\ ValuesOf(call.pre, call.variable) = {} => call.ret = None
          /\ ValuesOf(task_variables, call.variable) = {call.value}
          /\ \A w \in MapKeys :
                ~SameVariable(w, call.variable) =>
                    ValuesOf(task_variables, w) = ValuesOf(call.pre, w)

\* an insert overwrote a different value through the other Cow form of a
\* Custom key while another variable was in the container
C1_Witness ==
    /\ call.op = "insert"
    /\ call.ret.some
    /\ call.ret.value # call.value
    /\ Len(task_variables) = 2
    /\ \E i \in 1..Len(call.pre) :
          /\ SameVariable(call.pre[i].key, call.variable)
          /\ call.pre[i].key # call.variable

\* C2: after a.extend(b) every key of b maps to b's value, every key of a
\* that b lacks keeps a's value, and the keys are those of a and of b.
C2_ExtendRightOperandWins ==
    call.op = "extend" =>
        /\ \A i \in 1..Len(call.other) :
              ValuesOf(task_variables, call.other[i].key) = {call.other[i].value}
        /\ \A i \in 1..Len(call.pre) :
              ValuesOf(call.other, call.pre[i].key) = {} =>
                  ValuesOf(task_variables, call.pre[i].key) = {call.pre[i].value}
        /\ \A w \in MapKeys :
              ValuesOf(task_variables, w) # {} <=>
                  (ValuesOf(call.pre, w) # {} \/ ValuesOf(call.other, w) # {})

\* an extend met a collision on different values while the receiver held a
\* key of its own
C2_Witness ==
    /\ call.op = "extend"
    /\ \E i \in 1..Len(call.pre), j \in 1..Len(call.other) :
          /\ SameVariable(call.pre[i].key, call.other[j].key)
          /\ call.pre[i].value # call.other[j].value
    /\ \E i \in 1..Len(call.pre) : ValuesOf(call.other, call.pre[i].key) = {}

\* C3: the token Display gives a variable, which is also its key in the map
\* into_env_variables returns, is the canonical one character for character
\* and starts with ZED_.
C3_CanonicalTokens ==
    first.some =>
        /\ first.value.token = CanonicalToken(first.value.name)
        /\ DOMAIN first.value.env = {CanonicalToken(first.value.name)}
        /\ IsPrefix(<<"Z", "E", "D", "_">>, first.value.token)

\* a Custom variable and a built-in one were rendered
C3_Witness ==
    /\ first.some /\ second.some
    /\ first.value.name.tag = "Custom"
    /\ Len(first.value.name.payload) = 2
    /\ second.value.name.tag = "WorktreeRoot"
    /\ first.value.env[first.value.token] = <<"v">>

\* C4: template_value is '$' and the token for a built-in, with no brace
\* anywhere, and '${', the token and '}' for a Custom variable.
C4_TemplateValueForms ==
    first.some =>
        LET r == first.value IN
        IF r.name.tag = "Custom"
        THEN r.template = <<"$", "{">> \o r.token \o <<"}">>
        ELSE /\ r.template = <<"$">> \o r.token
             /\ Range(r.template) \cap {"{", "}"} = {}

\* a built-in variable was rendered after a Custom one
C4_Witness ==
    /\ first.some /\ second.some
    /\ first.value.name.tag = "Row"
    /\ first.value.template = <<"$", "Z", "E", "D", "_", "R", "O", "W">>
    /\ second.value.name.tag = "Custom"
    /\ second.value.template[2] = "{"

\* C5: two variables with the same token are the same variable.
C5_TokensIdentifyVariables ==
    (first.some /\ second.some /\ first.value.token = second.value.token) =>
        SameVariable(first.value.name, second.value.name)

\* Custom("FILE") was rendered after File, and their tokens differ
C5_Witness ==
    /\ first.some /\ second.some
    /\ first.value.name.tag = "Custom"
    /\ first.value.name.payload = <<"F", "I", "L", "E">>
    /\ second.value.name.tag = "File"
    /\ first.value.token # second.value.token

\* C6 as stated: every token is uppercase and starts with ZED_.
C6_EveryTokenUppercase ==
    first.some =>
        /\ IsUppercase(first.value.token)
        /\ IsPrefix(<<"Z", "E", "D", "_">>, first.value.token)

\* C6: every variable has one token, which starts with ZED_; a built-in's
\* token is uppercase, and a Custom variable's token is uppercase exactly
\* when its payload has no lowercase letter.
C6_OneTokenUnderPrefix ==
    /\ first.some =>
          /\ IsPrefix(<<"Z", "E", "D", "_">>, first.value.token)
          /\ IF first.value.name.tag = "Custom"
             THEN IsUppercase(first.value.token)
                      <=> IsUppercase(first.value.name.payload)
             ELSE IsUppercase(first.value.token)
    /\ (first.some /\ second.some
            /\ SameVariable(first.value.name, second.value.name)) =>
          first.value.token = second.value.token

\* one Custom variable was rendered in both Cow forms, with a lowercase
\* letter in its payload
C6_Witness ==
    /\ first.some /\ second.some
    /\ first.value.name.tag = "Custom"
    /\ second.value.name.tag = "Custom"
    /\ first.value.name.payload = <<"A", "b">>
    /\ second.value.name.payload = <<"A", "b">>
    /\ first.value.name.cow # second.value.name.cow
    /\ ~IsUppercase(first.value.token)

NoTemplateSyntax(v) ==
    v.tag = "Custom" => Range(v.payload) \cap {"$", "{", "}"} = {}

\* C10: of two different variables whose Custom payloads hold none of '$',
\* '{' and '}', the template value of one is no substring of the other's.
C10_TemplateValuesNotNested ==
    (/\ first.some /\ second.some
     /\ ~SameVariable(first.value.name, second.value.name)
     /\ NoTemplateSyntax(first.value.name)
     /\ NoTemplateSyntax(second.value.name)) =>
        ~IsSubstring(first.value.template, second.value.template)

\* two Custom variables were rendered, the payload of one a proper prefix of
\* the other's
C10_Witness ==
    /\ first.some /\ second.some
    /\ first.value.name.tag = "Custom"
    /\ second.value.name.tag = "Custom"
    /\ first.value.name.payload = <<"A">>
    /\ second.value.name.payload = <<"A", "b">>
    /\ ~IsSubstring(first.value.template, second.value.template)

(***************************************************************************)
(* Properties of resolution.                                               *)
(***************************************************************************)
\* the values the container holds for the variable whose token is `name`
ValuesNamed(m, name) ==
    {m[i].value : i \in {j \in 1..Len(m) : CanonicalToken(m[j].key) = name}}

\* what a piece of a template is to become
ExpectedPiece(piece, m) ==
    IF piece.kind = "lit" \/ ValuesNamed(m, piece.name) = {}
    THEN piece.text
    ELSE CHOOSE value \in ValuesNamed(m, piece.name) : TRUE

RECURSIVE ExpectedString(_, _)
ExpectedString(ps, m) ==
    IF ps = <<>> THEN <<>>
    ELSE ExpectedPiece(Head(ps), m) \o ExpectedString(Tail(ps), m)

\* the string fields of a SpawnInTerminal and of a template
SpawnStrings(spawn) ==
    {spawn.label, spawn.full_label, spawn.command}
        \cup Range(spawn.args)
        \cup {spawn.env[n] : n \in DOMAIN spawn.env}
        \cup (IF spawn.cwd.some THEN {spawn.cwd.value} ELSE {})

TemplateStrings(template) ==
    {template.label, template.command}
        \cup Range(template.args)
        \cup {template.env[n] : n \in DOMAIN template.env}
        \cup (IF template.cwd.some THEN {template.cwd.value} ELSE {})

\* s holds a token: '$' before a name character, or '${' with a '}' after it
HasToken(s) ==
    \E i \in 1..(Len(s) - 1) :
        /\ s[i] = "$"
        /\ \/ IsNameChar(s[i + 1])
           \/ s[i + 1] = "{" /\ \E j \in (i + 2)..Len(s) : s[j] = "}"

\* the token of `name` stands in s at position i, braced or unbraced
TokenAt(s, i, name) ==
    \/ OccursAt(<<"$", "{">> \o name \o <<"}">>, s, i)
    \/ /\ OccursAt(<<"$">> \o name, s, i)
       /\ i + Len(name) + 1 <= Len(s) => ~IsNameChar(s[i + Len(name) + 1])

\* every '$' of s begins the token of a variable the container holds
OnlyKnownTokens(s, m) ==
    \A i \in 1..Len(s) :
        s[i] = "$" => \E j \in 1..Len(m) : TokenAt(s, i, CanonicalToken(m[j].key))

====
